---- MODULE Spec2Model ----
(***************************************************************************)
(* A model of pnl_gui.py: the TradingJournal class, which loads a trade    *)
(* log from a CSV or Excel file (load_data), renders it as a table         *)
(* (display_trades) and prints summary statistics (display_summary).       *)
(*                                                                         *)
(* Text is a sequence of one-character strings.  A monetary amount is an   *)
(* integer number of 10^-Prec units (Scale units make 1.00).               *)
(***************************************************************************)
EXTENDS Integers, Sequences, FiniteSets, TLC

\* Bounds of the model.
MaxLen == 3          \* longest generated PnL text
MaxRows == 3         \* most rows in a file of the row-content family
MaxLoadRows == 2     \* most rows in a file of the path/format family

Prec == MaxLen + 1   \* decimals kept: more than any generated text can hold
Scale == 10 ^ Prec

----------------------------------------------------------------------------
(* Text helpers: what the str methods of the source do.                    *)

Digits == {"0", "1", "2", "3", "4", "5", "6", "7", "8", "9"}

DigitVal(c) ==
  CASE c = "0" -> 0 [] c = "1" -> 1 [] c = "2" -> 2 [] c = "3" -> 3
    [] c = "4" -> 4 [] c = "5" -> 5 [] c = "6" -> 6 [] c = "7" -> 7
    [] c = "8" -> 8 [] c = "9" -> 9

\* str.lower() on one character (the letters the paths of the model use).
LowerChar(c) ==
  CASE c = "C" -> "c" [] c = "S" -> "s" [] c = "V" -> "v" [] c = "X" -> "x"
    [] c = "L" -> "l" [] c = "T" -> "t" [] c = "A" -> "a" [] c = "B" -> "b"
    [] OTHER -> c

\* str.lower()
Lower(s) == [i \in 1..Len(s) |-> LowerChar(s[i])]

\* s.rfind(c), 1-based; 0 when c does not occur.
RFind(s, c) ==
  LET hits == {i \in 1..Len(s) : s[i] = c}
  IN  IF hits = {} THEN 0 ELSE CHOOSE i \in hits : \A j \in hits : j <= i

\* os.path.splitext(p)[1]: the text from the last dot of the last path
\* component, unless that component has only dots before it.
splitext(p) ==
  LET sepIndex == RFind(p, "/")
      dotIndex == RFind(p, ".")
  IN  IF dotIndex > sepIndex
        /\ \E k \in (sepIndex + 1)..(dotIndex - 1) : p[k] # "."
      THEN SubSeq(p, dotIndex, Len(p))
      ELSE <<>>

\* str.strip(): leading and trailing blanks removed.
Strip(s) ==
  LET keep == {i \in 1..Len(s) : s[i] # " "}
  IN  IF keep = {} THEN <<>>
      ELSE LET lo == CHOOSE i \in keep : \A j \in keep : i <= j
               hi == CHOOSE i \in keep : \A j \in keep : j <= i
           IN  SubSeq(s, lo, hi)

\* str.replace(c, ''): every occurrence of the character c removed.
Remove(s, c) == SelectSeq(s, LAMBDA x : x # c)

RECURSIVE DigitsValue(_)
\* The number a sequence of digits denotes.
DigitsValue(ds) ==
  IF ds = <<>> THEN 0
  ELSE 10 * DigitsValue(SubSeq(ds, 1, Len(ds) - 1)) + DigitVal(ds[Len(ds)])

\* A parsed float: ok (no ValueError), nan (not a number), v (the amount).
Failed == [ok |-> FALSE, nan |-> FALSE, v |-> 0]
NaNFloat == [ok |-> TRUE, nan |-> TRUE, v |-> 0]
Float(v) == [ok |-> TRUE, nan |-> FALSE, v |-> v]

AllDigits(x) == \A i \in 1..Len(x) : x[i] \in Digits

\* The digits before and after the point of an unsigned number text.
IntPart(body) ==
  IF RFind(body, ".") = 0 THEN body ELSE SubSeq(body, 1, RFind(body, ".") - 1)
FracPart(body) ==
  IF RFind(body, ".") = 0 THEN <<>> ELSE SubSeq(body, RFind(body, ".") + 1, Len(body))

Magnitude(int, frac) ==
  DigitsValue(int) * Scale + DigitsValue(frac) * 10 ^ (Prec - Len(frac))

\* Digits with at most one point and at least one digit.
Decimal(int, frac, negative) ==
  IF AllDigits(int) /\ AllDigits(frac) /\ Len(int) + Len(frac) > 0 /\ Len(frac) <= Prec
  THEN Float(IF negative THEN 0 - Magnitude(int, frac) ELSE Magnitude(int, frac))
  ELSE Failed

Unsigned(body, negative) ==
  IF Lower(body) = <<"n", "a", "n">> THEN NaNFloat
  ELSE Decimal(IntPart(body), FracPart(body), negative)

Signed(t) ==
  IF Len(t) > 0 /\ t[1] \in {"-", "+"}
  THEN Unsigned(SubSeq(t, 2, Len(t)), t[1] = "-")
  ELSE Unsigned(t, FALSE)

\* float(s) on text: blanks around it are ignored, then an optional sign,
\* then "nan" or digits with at most one point and at least one digit.
\* (Exponents, underscores and "inf" need characters no text of the model has.)
PyFloat(s) == Signed(Strip(s))

----------------------------------------------------------------------------
(* Cells of the PnL column, and the frames pandas builds from a file.      *)

StrCell(s) == [t |-> "str", s |-> s, v |-> 0, isInt |-> FALSE]
NumCell(v, isInt) == [t |-> "num", s |-> <<>>, v |-> v, isInt |-> isInt]
NaNCell == [t |-> "nan", s |-> <<>>, v |-> 0, isInt |-> FALSE]

DigitChar(d) == CHOOSE c \in Digits : DigitVal(c) = d

RECURSIVE NatText(_)
\* The decimal digits of a natural number.
NatText(n) ==
  IF n < 10 THEN <<DigitChar(n)>> ELSE NatText(n \div 10) \o <<DigitChar(n % 10)>>

RECURSIVE FracText(_, _)
\* The k-digit decimal fraction f / 10^k without its trailing zeros.
FracText(f, k) ==
  IF k = 0 \/ f = 0 THEN <<>>
  ELSE <<DigitChar(f \div 10 ^ (k - 1))>> \o FracText(f % 10 ^ (k - 1), k - 1)

Abs(x) == IF x < 0 THEN 0 - x ELSE x

\* str(x) of a value of the PnL column: text as it is, a missing value as
\* "nan", an integer as its digits, a float with a point and a fraction.
PyStr(cell) ==
  LET sign == IF cell.v < 0 THEN <<"-">> ELSE <<>>
      whole == NatText(Abs(cell.v) \div Scale)
      frac == FracText(Abs(cell.v) % Scale, Prec)
  IN  CASE cell.t = "str" -> cell.s
        [] cell.t = "nan" -> <<"n", "a", "n">>
        [] cell.t = "num" /\ cell.isInt -> sign \o whole
        [] OTHER -> sign \o whole \o <<".">> \o (IF frac = <<>> THEN <<"0">> ELSE frac)

\* The names of the columns display_trades reads.
AllColumns ==
  {"date", "trading session", "quantity", "risk:reward", "PnL",
   "percentage change", "comments"}

\* pd.DataFrame(): no columns, no rows.
EmptyFrame == [columns |-> {}, rows |-> <<>>, pnl_dtype |-> "object"]

\* Empty testing for columns only: a file of a header and no rows counts as data.
Empty_columns(df) == df.columns = {}

\* DataFrame.empty
Empty(df) == df.columns = {} \/ df.rows = <<>>

\* A file cell the reader takes for a number: a number cell, or text that
\* reads as one.  Blank text is a missing value.
IsBlank(c) == c.t = "str" /\ c.s = <<>>
IsNumeric(c) == c.t = "num" \/ (c.t = "str" /\ ~IsBlank(c) /\ PyFloat(c.s).ok)
IsWhole(c) ==
  IF c.t = "num" THEN c.v % Scale = 0
  ELSE IsNumeric(c) /\ RFind(c.s, ".") = 0 /\ ~PyFloat(c.s).nan

\* The value of a file cell the reader takes for a number.
NumberOf(c) == IF c.t = "num" THEN c.v ELSE PyFloat(c.s).v

\* The type inference of read_csv and read_excel on the PnL column: blank
\* cells are missing values; when every other cell is a number the column is
\* numeric (int64 when all are whole and none is missing, float64
\* otherwise); else it is an object column that keeps each cell as it is.
ReadFrame(content) ==
  LET cells == {content.rows[i].PnL : i \in 1..Len(content.rows)}
      given == {c \in cells : ~IsBlank(c)}
      numeric == \A c \in given : IsNumeric(c)
      whole == cells = given /\ \A c \in given : IsWhole(c)
      load(c) ==
        IF IsBlank(c) THEN NaNCell
        ELSE IF numeric THEN NumCell(NumberOf(c), whole)
        ELSE IF c.t = "num" THEN NumCell(c.v, c.v % Scale = 0)
        ELSE c
  IN  [columns |-> content.columns,
       rows |-> [i \in 1..Len(content.rows) |->
                   [date |-> content.rows[i].date, PnL |-> load(content.rows[i].PnL)]],
       pnl_dtype |-> IF ~numeric THEN "object"
                     ELSE IF whole THEN "int64" ELSE "float64"]

\* A date of the date column: a timestamp, NaT (missing), or text not yet
\* converted.
NaT == [kind |-> "NaT", y |-> 0, m |-> 0, d |-> 0, text |-> ""]
Timestamp(y, m, d) == [kind |-> "ts", y |-> y, m |-> m, d |-> d, text |-> ""]
DateText(s) == [kind |-> "text", y |-> 0, m |-> 0, d |-> 0, text |-> s]

\* The date texts of the model that pd.to_datetime can read.
ParsableDates == {"2024-01-01", "01/02/2024", ""}

\* pd.to_datetime on one value (defined on ParsableDates).
ToDatetime(x) ==
  CASE x.text = "2024-01-01" -> Timestamp(2024, 1, 1)
    [] x.text = "01/02/2024" -> Timestamp(2024, 1, 2)
    [] OTHER -> NaT

\* Timestamp.strftime('%Y-%m-%d')
Two(n) == IF n < 10 THEN <<"0">> \o NatText(n) ELSE NatText(n)
Strftime(ts) == NatText(ts.y) \o <<"-">> \o Two(ts.m) \o <<"-">> \o Two(ts.d)

----------------------------------------------------------------------------
(* The journal and the file it is built on.                                *)

VARIABLES
  file_path,   \* self.file_path
  file,        \* the file at file_path: exists, format, columns, rows
  data,        \* self.data
  reader,      \* the pandas reader load_data called last: none, read_csv, read_excel
  console,     \* what the last call printed, in order
  table,       \* the table display_trades built last: built, rows
  summary,     \* what display_summary computed last
  op           \* the last call: new (not constructed yet), load_data,
               \* display_trades, display_summary; raised when it did not return

vars == <<file_path, file, data, reader, console, table, summary, op>>

\* One printed line.
Line(kind, n, style) == [kind |-> kind, n |-> n, style |-> style]

\* The table of display_trades: none before one is built.
NoTable == [built |-> FALSE, rows |-> <<>>]
Table(rows) == [built |-> TRUE, rows |-> rows]

\* The statistics display_summary computes: none (not run, or nothing to
\* do), error (the computation raised), or ok with the figures.  win_rate
\* is in hundredths of a percent, as "{win_rate:.2f}" prints it.
NoSummary ==
  [state |-> "none", total |-> 0, profitable |-> 0, losing |-> 0,
   win_rate |-> 0, win_style |-> "", total_pnl |-> 0, pnl_style |-> ""]
SummaryError == [NoSummary EXCEPT !.state = "error"]

----------------------------------------------------------------------------
(* load_data                                                               *)

\* What load_data leaves: the frame, the reader it called and its print;
\* both except clauses assign and return, so no exception leaves the method.
Loaded(df, rd, out) == [data |-> df, reader |-> rd, console |-> out, raised |-> FALSE]

\* ConvertDates with errors='coerce': a value that cannot be read becomes NaT
\* and the rows are kept.
ConvertDates_coerce(df, rd) ==
  IF "date" \notin df.columns THEN Loaded(df, rd, <<>>)
  ELSE Loaded([df EXCEPT !.rows = [i \in 1..Len(df.rows) |->
                 [df.rows[i] EXCEPT !.date =
                    IF df.rows[i].date.text \in ParsableDates
                    THEN ToDatetime(df.rows[i].date) ELSE NaT]]],
              rd, <<>>)

\* Lines 37-39: the date column, when there is one, converted as a whole;
\* one value that cannot be read raises for the whole column.
ConvertDates(df, rd) ==
  IF "date" \notin df.columns THEN Loaded(df, rd, <<>>)
  ELSE IF \E i \in 1..Len(df.rows) : df.rows[i].date.text \notin ParsableDates
  THEN Loaded(EmptyFrame, rd, <<Line("load_error", 0, "date")>>)
  ELSE Loaded([df EXCEPT !.rows = [i \in 1..Len(df.rows) |->
                 [df.rows[i] EXCEPT !.date = ToDatetime(df.rows[i].date)]]],
              rd, <<>>)

\* Read with the except clauses in the other order: the general handler
\* takes the missing file too.
Read_generic(rd, format) ==
  IF ~file.exists \/ file.format # format
  THEN Loaded(EmptyFrame, rd, <<Line("load_error", 0, "read")>>)
  ELSE ConvertDates(ReadFrame(file), rd)

\* Lines 31 and 33: a reader on the file.  A missing file raises
\* FileNotFoundError; content that is not of the reader's format raises
\* another exception.
Read(rd, format) ==
  IF ~file.exists THEN Loaded(EmptyFrame, rd, <<Line("file_not_found", 0, "")>>)
  ELSE IF file.format # format THEN Loaded(EmptyFrame, rd, <<Line("load_error", 0, "read")>>)
  ELSE ConvertDates(ReadFrame(file), rd)

\* FileExtension without .lower().
FileExtension_cased(path) == splitext(path)

\* Line 27: the extension the reader is chosen by.
FileExtension(path) == Lower(splitext(path))

\* Lines 25-46.
LoadResult(path) ==
  LET file_extension == FileExtension(path)
  IN  IF file_extension = <<".", "c", "s", "v">> THEN Read("read_csv", "csv")
      ELSE IF file_extension \in {<<".", "x", "l", "s", "x">>, <<".", "x", "l", "s">>}
      THEN Read("read_excel", "excel")
      ELSE Loaded(EmptyFrame, "none", <<Line("load_error", 0, "unsupported")>>)

\* TradingJournal(file_path) and load_data().
load_data ==
  LET r == LoadResult(file_path)
  IN  /\ data' = r.data
      /\ reader' = r.reader
      /\ console' = r.console
      /\ op' = IF r.raised THEN "raised" ELSE "load_data"
      /\ UNCHANGED <<file_path, file, table, summary>>

----------------------------------------------------------------------------
(* display_trades and display_summary                                      *)

\* Lines 73-74 and 107: the amount of a PnL text, "$" and "," removed.
ParsePnl(s) == PyFloat(Remove(Remove(s, "$"), ","))

\* RenderRow with "profit" only for an amount above zero.
RenderRow_strict(df, i) ==
  LET row == df.rows[i]
      pnl_str == Strip(PyStr(row.PnL))
      pnl_value == ParsePnl(pnl_str)
  IN  IF "PnL" \in df.columns /\ pnl_value.ok /\ row.date.kind = "ts"
         /\ AllColumns \subseteq df.columns
      THEN [ok |-> TRUE, why |-> "", index |-> i, date |-> Strftime(row.date),
            pnl_str |-> pnl_str,
            pnl_style |-> IF ~pnl_value.nan /\ pnl_value.v > 0 THEN "profit" ELSE "loss"]
      ELSE [ok |-> FALSE, why |-> "Exception", index |-> i, date |-> <<>>,
            pnl_str |-> <<>>, pnl_style |-> ""]

\* Lines 71-88 for one row: the table row it adds, or the exception that
\* skips it (the first one raised, in the order the code evaluates).
RenderRow(df, i) ==
  LET row == df.rows[i]
      pnl_str == Strip(PyStr(row.PnL))
      pnl_value == ParsePnl(pnl_str)
      pnl_style == IF ~pnl_value.nan /\ pnl_value.v >= 0 THEN "profit" ELSE "loss"
      skip(why) == [ok |-> FALSE, why |-> why, index |-> i, date |-> <<>>,
                    pnl_str |-> <<>>, pnl_style |-> ""]
  IN  IF "PnL" \notin df.columns THEN skip("KeyError")
      ELSE IF ~pnl_value.ok THEN skip("ValueError")
      ELSE IF "date" \notin df.columns THEN skip("KeyError")
      ELSE IF row.date.kind # "ts" THEN skip("ValueError")
      ELSE IF ~(AllColumns \subseteq df.columns) THEN skip("KeyError")
      ELSE [ok |-> TRUE, why |-> "", index |-> i, date |-> Strftime(row.date),
            pnl_str |-> pnl_str, pnl_style |-> pnl_style]

RECURSIVE RenderRows_break(_, _)
\* RenderRows leaving the loop at the first row that raises.
RenderRows_break(df, k) ==
  IF k = 0 THEN [table |-> <<>>, errors |-> <<>>]
  ELSE LET before == RenderRows_break(df, k - 1)
           r == RenderRow(df, k)
       IN  IF before.errors # <<>> THEN before
           ELSE IF r.ok THEN [before EXCEPT !.table = Append(@, r)]
           ELSE [before EXCEPT !.errors = Append(@, Line("row_error", k, r.why))]

RECURSIVE RenderRows(_, _)
\* Lines 70-88 over the first k rows: the table rows added and the lines
\* printed for the rows skipped, both in row order.
RenderRows(df, k) ==
  IF k = 0 THEN [table |-> <<>>, errors |-> <<>>]
  ELSE LET before == RenderRows(df, k - 1)
           r == RenderRow(df, k)
       IN  IF r.ok THEN [before EXCEPT !.table = Append(@, r)]
           ELSE [before EXCEPT !.errors = Append(@, Line("row_error", k, r.why))]

RECURSIVE SumTo(_, _)
\* Series.sum() over the first k values: missing values are left out.
SumTo(values, k) ==
  IF k = 0 THEN 0
  ELSE SumTo(values, k - 1) + (IF values[k].nan THEN 0 ELSE values[k].v)

\* "{win_rate:.2f}" of profitable / total * 100, in hundredths of a percent
\* (rounded to the nearest; no tie arises for a total below 32).
WinRate(profitable, total) == (2 * 10000 * profitable + total) \div (2 * total)

\* Line 107: the PnL column as floats.  The .str accessor raises on a
\* numeric column; .str.replace gives a missing value for every element
\* that is not text; astype(float) raises on text that is no number.
PnlValues(df) ==
  [i \in 1..Len(df.rows) |->
     IF df.rows[i].PnL.t = "str" THEN ParsePnl(df.rows[i].PnL.s) ELSE NaNFloat]

\* Lines 105-120 on a frame that is not empty.
ComputeSummary(df) ==
  LET total_trades == Len(df.rows)
      pnl_values == PnlValues(df)
      profitable_trades ==
        Cardinality({i \in 1..total_trades : ~pnl_values[i].nan /\ pnl_values[i].v > 0})
      win_rate == WinRate(profitable_trades, total_trades)
      total == SumTo(pnl_values, total_trades)
  IN  IF "PnL" \notin df.columns \/ df.pnl_dtype # "object"
         \/ \E i \in 1..total_trades : ~pnl_values[i].ok
      THEN SummaryError
      ELSE [state |-> "ok", total |-> total_trades, profitable |-> profitable_trades,
            losing |-> total_trades - profitable_trades,
            win_rate |-> IF total_trades > 0 THEN win_rate ELSE 0,
            win_style |-> IF total_trades = 0 THEN ""
                          ELSE IF 100 * profitable_trades >= 50 * total_trades
                          THEN "profit" ELSE "loss",
            total_pnl |-> total,
            pnl_style |-> IF total_trades = 0 THEN ""
                          ELSE IF total >= 0 THEN "profit" ELSE "loss"]

\* Lines 110-120: what display_summary prints for a computed summary.
SummaryLines(s) ==
  IF s.state = "error" THEN <<Line("stats_error", 0, "warning")>>
  ELSE <<Line("stats_header", 0, ""), Line("total", s.total, ""),
         Line("profitable", s.profitable, "profit"), Line("losing", s.losing, "loss")>>
       \o (IF s.total > 0
           THEN <<Line("win_rate", s.win_rate, s.win_style),
                  Line("total_pnl", s.total_pnl, s.pnl_style)>>
           ELSE <<>>)

\* display_trades dropping from self.data the rows it skipped.
display_trades_dropping ==
  /\ op \notin {"new", "raised"}
  /\ IF Empty(data)
     THEN /\ console' = <<Line("no_data", 0, "warning")>>
          /\ UNCHANGED <<table, summary, data>>
     ELSE LET rendered == RenderRows(data, Len(data.rows))
              kept == {rendered.table[k].index : k \in 1..Len(rendered.table)}
              s == ComputeSummary(data)
          IN  /\ table' = Table(rendered.table)
              /\ summary' = s
              /\ data' = [data EXCEPT !.rows = SelectSeq(data.rows,
                             LAMBDA r : \E i \in kept : data.rows[i] = r)]
              /\ console' = rendered.errors
                              \o <<Line("banner", 0, ""), Line("table", Len(rendered.table), "")>>
                              \o SummaryLines(s)
  /\ op' = "display_trades"
  /\ UNCHANGED <<file_path, file, reader>>

\* Lines 48-100.
display_trades ==
  /\ op \notin {"new", "raised"}
  /\ IF Empty(data)
     THEN /\ console' = <<Line("no_data", 0, "warning")>>
          /\ UNCHANGED <<table, summary>>
     ELSE LET rendered == RenderRows(data, Len(data.rows))
              s == ComputeSummary(data)
          IN  /\ table' = Table(rendered.table)
              /\ summary' = s
              /\ console' = rendered.errors
                              \o <<Line("banner", 0, ""), Line("table", Len(rendered.table), "")>>
                              \o SummaryLines(s)
  /\ op' = "display_trades"
  /\ UNCHANGED <<file_path, file, data, reader>>

\* Lines 102-120.
display_summary ==
  /\ op \notin {"new", "raised"}
  /\ IF ~Empty(data)
     THEN /\ summary' = ComputeSummary(data)
          /\ console' = SummaryLines(ComputeSummary(data))
     ELSE /\ summary' = NoSummary
          /\ console' = <<>>
  /\ op' = "display_summary"
  /\ UNCHANGED <<file_path, file, data, reader, table>>

----------------------------------------------------------------------------
(* The files and paths the journal is built on.                            *)

\* Every sequence over S of length at most n.
SeqsUpTo(S, n) == UNION {[1..k -> S] : k \in 0..n}

\* The characters generated PnL texts are made of.
Alphabet == {"$", ",", "-", ".", "0", "1", "a", " "}

Path_csv == <<"a", ".", "c", "s", "v">>
Path_CSV == <<"a", ".", "C", "S", "V">>
Path_Csv == <<"b", "/", "a", ".", "C", "s", "v">>
Path_xlsx == <<"a", ".", "x", "l", "s", "x">>
Path_XLSX == <<"a", ".", "X", "L", "S", "X">>
Path_xls == <<"a", ".", "x", "l", "s">>
Path_Xls == <<"a", ".", "X", "l", "s">>
Path_txt == <<"a", ".", "t", "x", "t">>
Path_none == <<"c", "s", "v">>
Path_hidden == <<".", "c", "s", "v">>
Path_bak == <<"a", ".", "c", "s", "v", ".", "b">>
Path_dir == <<"a", ".", "c", "s", "v", "/", "b">>

SupportedPaths == {Path_csv, Path_CSV, Path_Csv, Path_xlsx, Path_XLSX, Path_xls, Path_Xls}
UnsupportedPaths == {Path_txt, Path_none, Path_hidden, Path_bak, Path_dir}

Text_100 == <<"$", "1", "0", "0">>
Text_m50 == <<"-", "$", "5", "0">>
Text_0 == <<"$", "0">>
Text_abc == <<"a", "b", "c">>
Text_1234_56 == <<"$", "1", ",", "2", "3", "4", ".", "5", "6">>
Text_plain == <<"1", "0", "0">>

\* A file: whether it exists, its real format, its columns and its rows.
File(exists, format, columns, rows) ==
  [exists |-> exists, format |-> format, columns |-> columns, rows |-> rows]

NoFile == File(FALSE, "garbage", {}, <<>>)
Garbage == File(TRUE, "garbage", {}, <<>>)

Rows(n, dates, cells) ==
  SeqsUpTo([date : {DateText(d) : d \in dates}, PnL : cells], n)

\* Files for load_data: any format, with or without the columns the journal
\* reads, dates that can and cannot be read.
LoadFiles ==
  {NoFile, Garbage}
  \cup {File(TRUE, f, AllColumns \ drop, rows) :
          f \in {"csv", "excel"}, drop \in {{}, {"comments"}},
          rows \in Rows(MaxLoadRows, {"2024-01-01", "01/02/2024", "", "soon"},
                        {StrCell(Text_100), StrCell(Text_abc)})}
  \cup {File(TRUE, f, AllColumns \ drop, rows) :
          f \in {"csv", "excel"}, drop \in {{"date"}, {"PnL"}},
          rows \in Rows(MaxLoadRows, {""}, {StrCell(<<>>)})}

\* Files for the displays: well-formed, with PnL cells of every kind (an
\* Excel file also holds number cells).
CsvCells ==
  {StrCell(s) : s \in {Text_100, Text_m50, Text_0, Text_abc, Text_plain, <<>>}}
ExcelCells == CsvCells \cup {NumCell(100 * Scale, TRUE), NumCell(0 - Scale \div 2, FALSE)}

ViewFiles ==
  {File(TRUE, "csv", AllColumns, rows) : rows \in Rows(MaxRows, {"2024-01-01"}, CsvCells)}
  \cup {File(TRUE, "excel", AllColumns, rows) :
          rows \in Rows(MaxRows, {"2024-01-01"}, ExcelCells)}

\* One-row files whose PnL is any short text, and the long example.
ParseFiles ==
  {File(TRUE, "csv", AllColumns, <<[date |-> DateText("2024-01-01"), PnL |-> StrCell(s)]>>) :
     s \in SeqsUpTo(Alphabet, MaxLen) \cup {Text_1234_56}}

Init ==
  /\ \/ /\ file_path \in SupportedPaths \cup UnsupportedPaths
        /\ file \in LoadFiles
     \/ /\ file_path \in {Path_csv, Path_xlsx}
        /\ file \in ViewFiles
        /\ file.format = (IF file_path = Path_csv THEN "csv" ELSE "excel")
     \/ /\ file_path = Path_csv
        /\ file \in ParseFiles
  /\ data = EmptyFrame
  /\ reader = "none"
  /\ console = <<>>
  /\ table = NoTable
  /\ summary = NoSummary
  /\ op = "new"

Next == load_data \/ display_trades \/ display_summary

Spec == Init /\ [][Next]_vars

----------------------------------------------------------------------------
(* Properties.                                                             *)

\* The lines of a kind on the console.
CountLines(kind) == Cardinality({i \in 1..Len(console) : console[i].kind = kind})
HasLine(kind) == CountLines(kind) > 0

\* The paths of the model by the reader their extension asks for.
CsvPaths == {Path_csv, Path_CSV, Path_Csv}
ExcelPaths == {Path_xlsx, Path_XLSX, Path_xls, Path_Xls}
OtherPaths == {Path_txt, Path_none, Path_hidden, Path_bak, Path_dir}

\* The file is of the format the path's extension names.
RightFormat ==
  \/ file_path \in CsvPaths /\ file.format = "csv"
  \/ file_path \in ExcelPaths /\ file.format = "excel"

\* A date of the file cannot be read.
BadDate ==
  "date" \in file.columns /\ \E i \in 1..Len(file.rows) : file.rows[i].date.text = "soon"

\* The load fails: the extension, the file, its content or a date is wrong.
LoadFails == file_path \in OtherPaths \/ ~file.exists \/ ~RightFormat \/ BadDate

OneDiagnostic ==
  Len(console) = 1 /\ console[1].kind \in {"file_not_found", "load_error"}

\* C1 as stated: load_data never raises; every failure prints one diagnostic
\* and leaves an empty TradeLog; a missing file is always reported as file
\* not found, never as a load error.
C1_MissingAlwaysNotFound ==
  /\ op # "raised"
  /\ op = "load_data" =>
       /\ LoadFails => OneDiagnostic /\ data = EmptyFrame
       /\ ~file.exists => console = <<Line("file_not_found", 0, "")>>

\* C1 amended: load_data never raises; every failure prints one diagnostic
\* and leaves an empty TradeLog; a missing file is reported as file not found
\* when the path has a supported extension, and as the unsupported-format
\* load error when it has not.
C1_LoadNeverRaises ==
  /\ op # "raised"
  /\ op = "load_data" =>
       /\ LoadFails => OneDiagnostic /\ data = EmptyFrame
       /\ ~LoadFails => console = <<>>
       /\ ~file.exists /\ file_path \notin OtherPaths =>
            console = <<Line("file_not_found", 0, "")>>
       /\ ~file.exists /\ file_path \in OtherPaths =>
            console = <<Line("load_error", 0, "unsupported")>>

C1_Witness ==
  /\ op = "load_data" /\ ~file.exists /\ file_path = Path_XLSX
  /\ console = <<Line("file_not_found", 0, "")>> /\ data = EmptyFrame

\* C2: the reader is chosen by the extension alone, in any letter case; any
\* other extension gives an empty TradeLog and the unsupported-format error
\* with no reader called, whether the file exists or not.
C2_ExtensionDecides ==
  op = "load_data" =>
    /\ file_path \in CsvPaths => reader = "read_csv"
    /\ file_path \in ExcelPaths => reader = "read_excel"
    /\ file_path \in OtherPaths =>
         /\ reader = "none"
         /\ data = EmptyFrame
         /\ console = <<Line("load_error", 0, "unsupported")>>

C2_Witness ==
  /\ op = "load_data" /\ file_path = Path_bak /\ file.exists /\ file.format = "csv"
  /\ file.rows # <<>> /\ reader = "none" /\ data = EmptyFrame

\* C3: with a date column, one date that cannot be read fails the whole
\* load and no row is kept; when every date can be read all rows are kept.
C3_DatesAllOrNothing ==
  op = "load_data" /\ file.exists /\ RightFormat /\ "date" \in file.columns =>
    IF BadDate
    THEN data = EmptyFrame /\ console = <<Line("load_error", 0, "date")>>
    ELSE /\ Len(data.rows) = Len(file.rows)
         /\ console = <<>>
         /\ \A i \in 1..Len(data.rows) : data.rows[i].date.kind \in {"ts", "NaT"}

C3_Witness ==
  /\ op = "load_data" /\ file.exists /\ RightFormat /\ "date" \in file.columns
  /\ Len(file.rows) = 2
  /\ file.rows[1].date.text = "2024-01-01" /\ file.rows[2].date.text = "soon"
  /\ data = EmptyFrame

\* The display of row i parses its PnL (lines 73-74 raise nothing).
Parses(i) == ParsePnl(Strip(PyStr(data.rows[i].PnL))).ok

\* Row i renders: its PnL parses and every field display_trades reads is there.
Renders(i) ==
  /\ AllColumns \subseteq data.columns
  /\ Parses(i)
  /\ data.rows[i].date.kind = "ts"

\* The table row made of row i, if there is one.
Shown(i) == table.built /\ \E k \in 1..Len(table.rows) : table.rows[k].index = i

\* C4: display_trades skips a row that fails, with one diagnostic, and
\* renders every other row; the table holds exactly the rows that render, in
\* file order, and the skipped rows stay in the TradeLog.
C4_RowsSkippedOneByOne ==
  op = "display_trades" /\ ~Empty(data) =>
    LET n == Len(data.rows)
        good == {i \in 1..n : Renders(i)}
    IN  /\ Len(table.rows) = Cardinality(good)
        /\ \A i \in 1..n : Shown(i) <=> i \in good
        /\ \A k \in 1..Len(table.rows) : \A l \in 1..Len(table.rows) :
             k < l => table.rows[k].index < table.rows[l].index
        /\ \A k \in 1..Len(table.rows) :
             table.rows[k].pnl_str = Strip(PyStr(data.rows[table.rows[k].index].PnL))
        /\ CountLines("row_error") = n - Cardinality(good)
        /\ \A i \in (1..n) \ good :
             Cardinality({j \in 1..Len(console) :
                            console[j].kind = "row_error" /\ console[j].n = i}) = 1
        /\ HasLine("table")
        /\ n = Len(file.rows)

C4_Witness ==
  /\ op = "display_trades" /\ Len(data.rows) = 3
  /\ Parses(1) /\ ~Parses(2) /\ Parses(3)
  /\ Len(table.rows) = 2 /\ table.rows[1].index = 1 /\ table.rows[2].index = 3
  /\ CountLines("row_error") = 1

StatKinds == {"stats_header", "total", "profitable", "losing", "win_rate", "total_pnl"}

\* No PnL value of the TradeLog is missing (a blank cell of the file).
NoneMissing == \A i \in 1..Len(data.rows) : data.rows[i].PnL.t # "nan"

\* C5 (for a TradeLog with no missing PnL value): if one PnL value of the TradeLog is malformed display_summary prints
\* no statistics line and one statistics error, below the table already
\* rendered; if every PnL value parses it prints every statistics line.
C5_SummaryAllOrNothing ==
  op \in {"display_trades", "display_summary"} /\ ~Empty(data) /\ "PnL" \in data.columns =>
    IF \E i \in 1..Len(data.rows) : ~Parses(i)
    THEN /\ \A kind \in StatKinds : ~HasLine(kind)
         /\ CountLines("stats_error") = 1
         /\ op = "display_trades" => HasLine("table")
    ELSE NoneMissing =>
           /\ \A kind \in StatKinds : CountLines(kind) = 1
           /\ ~HasLine("stats_error")

\* The amount the display parses for row i; a missing value counts for nothing.
Amount(i) ==
  LET f == ParsePnl(Strip(PyStr(data.rows[i].PnL)))
  IN  IF f.nan THEN 0 ELSE f.v

RECURSIVE AmountsTo(_)
AmountsTo(k) == IF k = 0 THEN 0 ELSE AmountsTo(k - 1) + Amount(k)

\* C6 (for a TradeLog with no missing PnL value): when every PnL value parses, total is the number of records,
\* profitable the number of amounts above zero, losing the rest, win_rate
\* profitable / total * 100 and total_pnl the sum of the amounts.
C6_SummaryFigures ==
  /\ op \in {"display_trades", "display_summary"} /\ ~Empty(data) /\ "PnL" \in data.columns
       /\ NoneMissing /\ (\A i \in 1..Len(data.rows) : Parses(i)) =>
       LET n == Len(data.rows)
           wins == Cardinality({i \in 1..n : Amount(i) > 0})
       IN  /\ summary.state = "ok"
           /\ summary.total = n
           /\ summary.profitable = wins
           /\ summary.losing = n - wins
           /\ summary.total_pnl = AmountsTo(n)
           /\ 2 * Abs(summary.win_rate * n - 10000 * wins) <= n
  /\ LET example == [columns |-> AllColumns, pnl_dtype |-> "object",
                     rows |-> [i \in 1..3 |->
                        [date |-> Timestamp(2024, 1, i),
                         PnL |-> StrCell(<<Text_100, Text_m50, Text_0>>[i])]]]
         s == ComputeSummary(example)
     IN  /\ s.total = 3 /\ s.profitable = 1 /\ s.losing = 2
         /\ s.total_pnl = 50 * Scale /\ s.win_rate = 3333

\* C7: on an empty TradeLog display_trades prints that there is no data and
\* builds no table and no summary; display_summary does nothing; no win
\* rate is computed or printed.
C7_EmptyLogNoWinRate ==
  op \in {"display_trades", "display_summary"} /\ data.rows = <<>> =>
    /\ table = NoTable
    /\ summary = NoSummary
    /\ \A kind \in StatKinds \cup {"stats_error", "table"} : ~HasLine(kind)
    /\ op = "display_trades" => console = <<Line("no_data", 0, "warning")>>
    /\ op = "display_summary" => console = <<>>

C7_Witness ==
  /\ op = "display_trades" /\ file.exists /\ RightFormat
  /\ file.columns = AllColumns /\ file.rows = <<>>
  /\ console = <<Line("no_data", 0, "warning")>> /\ table = NoTable

\* Text that is a signed decimal number: an optional sign, then digits with
\* at most one point and at least one digit (blanks around it set aside).
IsSignedDecimal(s) ==
  LET t == Strip(s)
      u == IF Len(t) > 0 /\ t[1] = "-" THEN Tail(t) ELSE t
  IN  /\ \A i \in 1..Len(u) : u[i] \in Digits \cup {"."}
      /\ Cardinality({i \in 1..Len(u) : u[i] = "."}) <= 1
      /\ \E i \in 1..Len(u) : u[i] \in Digits

\* The raw PnL value of row i as text: a missing value is blank.
RawText(i) ==
  LET c == data.rows[i].PnL
  IN  IF c.t = "nan" THEN <<>> ELSE PyStr(c)

\* C8 (for a PnL column that holds text): "$" and "," are removed and the
\* rest is parsed as a signed decimal, "$1,234.56" as 1234.56 and "-$50" as
\* -50; a raw value whose rest is no number, a blank one included, fails:
\* its row is skipped by the display and the summary fails.
C8_ParsePnl ==
  /\ ParsePnl(Text_1234_56) = Float((123456 * Scale) \div 100)
  /\ ParsePnl(Text_m50) = Float(0 - 50 * Scale)
  /\ ~ParsePnl(Text_abc).ok
  /\ op = "display_trades" /\ ~Empty(data) /\ AllColumns \subseteq data.columns
       /\ data.pnl_dtype = "object"
       /\ (\A i \in 1..Len(data.rows) : data.rows[i].date.kind = "ts") =>
       \A i \in 1..Len(data.rows) :
         LET rest == Remove(Remove(RawText(i), "$"), ",")
         IN  /\ IsSignedDecimal(rest) <=> Shown(i)
             /\ ~IsSignedDecimal(rest) => summary.state = "error"

\* C8 without the blank value: the same for the rows whose PnL is text.
C8_ParsePnlOfText ==
  op = "display_trades" /\ ~Empty(data) /\ AllColumns \subseteq data.columns
    /\ data.pnl_dtype = "object"
    /\ (\A i \in 1..Len(data.rows) : data.rows[i].date.kind = "ts") =>
    \A i \in 1..Len(data.rows) :
      data.rows[i].PnL.t # "nan" =>
        LET rest == Remove(Remove(RawText(i), "$"), ",")
        IN  /\ IsSignedDecimal(rest) <=> Shown(i)
            /\ ~IsSignedDecimal(rest) => summary.state = "error"

\* The amount of a table row.
Shows(k) == ParsePnl(table.rows[k].pnl_str)

\* C9: a row is favorable iff its amount is at least 0, the win rate iff it
\* is at least 50 and the total iff it is at least 0; so a row of amount 0
\* is favorable in the table and among the losing trades of the summary.
C9_InclusiveThresholds ==
  /\ op = "display_trades" /\ table.built =>
       \A k \in 1..Len(table.rows) :
         /\ table.rows[k].pnl_style = "profit" <=> (~Shows(k).nan /\ Shows(k).v >= 0)
         /\ table.rows[k].pnl_style \in {"profit", "loss"}
  /\ summary.state = "ok" =>
       /\ summary.win_style = "profit" <=> 2 * summary.profitable >= summary.total
       /\ summary.win_style \in {"profit", "loss"}
       /\ summary.pnl_style = "profit" <=> summary.total_pnl >= 0
       /\ summary.pnl_style \in {"profit", "loss"}
       /\ summary.losing >=
            Cardinality({i \in 1..Len(data.rows) : Parses(i) /\ Amount(i) = 0})
  /\ op \in {"display_trades", "display_summary"} /\ summary.state = "ok" =>
       /\ \E j \in 1..Len(console) :
            console[j] = Line("win_rate", summary.win_rate, summary.win_style)
       /\ \E j \in 1..Len(console) :
            console[j] = Line("total_pnl", summary.total_pnl, summary.pnl_style)

C9_Witness ==
  /\ op = "display_trades" /\ table.built /\ Len(table.rows) = 2
  /\ table.rows[1].pnl_str = Text_0 /\ table.rows[1].pnl_style = "profit"
  /\ table.rows[2].pnl_str = Text_100
  /\ summary.state = "ok" /\ summary.profitable = 1 /\ summary.losing = 1
  /\ summary.win_style = "profit" /\ summary.total_pnl = 100 * Scale

\* C10: display_trades and display_summary leave the TradeLog as it is, also
\* when rows are skipped or the statistics fail, and a summary computed
\* again is the same.
C10_LogImmutable ==
  [][op' \in {"display_trades", "display_summary"} =>
       /\ data' = data
       /\ (summary.state # "none" /\ summary'.state # "none") => summary' = summary]_vars

C10_Witness ==
  /\ op = "display_summary" /\ summary.state = "error"
  /\ table.built /\ Len(table.rows) = 2 /\ Len(data.rows) = 3
  /\ CountLines("stats_error") = 1

====
